---- MODULE Spec2Model ----
(***************************************************************************)
(* Model of scripts/build-rss.mjs: the two feed-build scripts of the       *)
(* repository (the image-sitemap script and the news-sitemap script with   *)
(* secondary article-page fetches).                                        *)
(*                                                                         *)
(* JavaScript strings are sequences of one-character strings, so that      *)
(* trim, split, includes, startsWith, toLowerCase and localeCompare are    *)
(* computed character by character.  undefined / null / a non-string value *)
(* is the one-element sequence Undefined, which no string equals.          *)
(***************************************************************************)
EXTENDS Integers, Sequences, FiniteSets, TLC

\* ------------------------------------------------------------------ bounds
MaxIndexLen == 3    \* <sitemap> entries in a sitemap index document
MaxExtra    == 1    \* entries a document holds beyond MAX_ITEMS / beyond the pool
NDistinct   == 6    \* distinct article URLs at the head of a document

\* ------------------------------------------------------- program constants
MAX_ITEMS == 5
PoolSize  == 25
UPDATED_ARTICLE_SITEMAP_INDEX  == <<"U">>
FALLBACK_ARTICLE_SITEMAP_INDEX == <<"F">>
NEWS_SITEMAP == <<"N">>

\* ----------------------------------------------------------- JS strings
Undefined == <<"undefined">>
Empty     == <<>>

\* !v of JavaScript for a string-or-undefined value
Falsy(v) == v = Undefined \/ v = Empty

\* a || b
Or(a, b) == IF Falsy(a) THEN b ELSE a

RECURSIVE TrimStart(_)
TrimStart(s) == IF s # <<>> /\ Head(s) = " " THEN TrimStart(Tail(s)) ELSE s

RECURSIVE TrimEnd(_)
TrimEnd(s) ==
  IF s # <<>> /\ s[Len(s)] = " " THEN TrimEnd(SubSeq(s, 1, Len(s) - 1)) ELSE s

\* String.prototype.trim
Trim(s) == TrimEnd(TrimStart(s))

\* String.prototype.startsWith
StartsWith(s, p) == Len(s) >= Len(p) /\ SubSeq(s, 1, Len(p)) = p

\* String.prototype.includes
Includes(s, p) ==
  \E i \in 1..(Len(s) - Len(p) + 1) : SubSeq(s, i, i + Len(p) - 1) = p

LowerChar(c) ==
  CASE c = "P" -> "p" [] c = "N" -> "n" [] c = "G" -> "g"
    [] c = "W" -> "w" [] c = "E" -> "e" [] c = "B" -> "b"
    [] c = "J" -> "j" [] OTHER -> c

\* String.prototype.toLowerCase
ToLowerCase(s) == [i \in 1..Len(s) |-> LowerChar(s[i])]

\* Array.prototype.slice(0, n)
Slice(s, n) == SubSeq(s, 1, IF Len(s) < n THEN Len(s) ELSE n)

\* ------------------------------------------------- String.localeCompare
\* Primary collation weight of the characters a lastmod is written with
\* (ICU root collation: punctuation "-" before the symbol "+", both before
\* the digits).
CollationRank(c) ==
  CASE c = "-" -> 1 [] c = "+" -> 2 [] c = "1" -> 3 [] c = "2" -> 4

\* a.localeCompare(b): -1, 0 or 1
RECURSIVE localeCompare(_, _)
localeCompare(a, b) ==
  IF a = <<>> /\ b = <<>> THEN 0
  ELSE IF a = <<>> THEN -1
  ELSE IF b = <<>> THEN 1
  ELSE IF CollationRank(Head(a)) < CollationRank(Head(b)) THEN -1
  ELSE IF CollationRank(Head(a)) > CollationRank(Head(b)) THEN 1
  ELSE localeCompare(Tail(a), Tail(b))

\* the comparator handed to sort: (a, b) => (b.lastmod || "").localeCompare(a.lastmod || "")
NewestFirst(a, b) == localeCompare(Or(b.lastmod, Empty), Or(a.lastmod, Empty))

\* Array.prototype.sort is stable: x goes behind every element that does not
\* compare after it.
RECURSIVE InsertSorted(_, _)
InsertSorted(sorted, x) ==
  IF sorted = <<>> THEN <<x>>
  ELSE IF NewestFirst(Head(sorted), x) <= 0
       THEN <<Head(sorted)>> \o InsertSorted(Tail(sorted), x)
       ELSE <<x>> \o sorted

RECURSIVE SortSitemaps(_)
SortSitemaps(s) ==
  IF s = <<>> THEN <<>>
  ELSE InsertSorted(SortSitemaps(SubSeq(s, 1, Len(s) - 1)), s[Len(s)])

\* -------------------------------------------------- image-sitemap script
\* parseSitemapIndex(xml): xml is the sequence of <sitemap> elements, each
\* with the text of its <loc> and <lastmod> ("" when the element is absent).
RECURSIVE CollectSitemaps(_)
CollectSitemaps(xml) ==
  IF xml = <<>> THEN <<>>
  ELSE LET loc     == Trim(Head(xml).loc)
           lastmod == Trim(Head(xml).lastmod)
       IN  (IF loc # Empty THEN <<[loc |-> loc, lastmod |-> lastmod]>> ELSE <<>>)
             \o CollectSitemaps(Tail(xml))

parseSitemapIndex(xml) ==
  LET sorted == SortSitemaps(CollectSitemaps(xml))
  IN  [i \in 1..Len(sorted) |-> sorted[i].loc]

\* parseArticleSitemap(xml): xml is the sequence of <url> elements, each with
\* the text of its first <loc>, of its first <image:image><image:loc> and of
\* its first <image:loc> anywhere below it.
RECURSIVE parseArticleSitemap(_)
parseArticleSitemap(xml) ==
  IF xml = <<>> THEN <<>>
  ELSE LET loc      == Trim(Head(xml).loc)
           imageLoc == Or(Trim(Head(xml).nestedImageLoc),
                          Or(Trim(Head(xml).imageLoc), Empty))
       IN  (IF loc # Empty /\ imageLoc # Empty
              THEN <<[url |-> loc, image |-> imageLoc]>> ELSE <<>>)
             \o parseArticleSitemap(Tail(xml))

\* guessImageType(url), the same in both scripts
guessImageType(url) ==
  LET lower == ToLowerCase(url)
  IN  IF Includes(lower, <<".", "p", "n", "g">>) THEN "image/png"
      ELSE IF Includes(lower, <<".", "w", "e", "b", "p">>) THEN "image/webp"
      ELSE "image/jpeg"

\* String.prototype.split(sep) for a one-character separator
RECURSIVE Split(_, _)
Split(s, sep) ==
  IF \E i \in 1..Len(s) : s[i] = sep
    THEN LET i == CHOOSE k \in 1..Len(s) :
                    s[k] = sep /\ \A j \in 1..(k - 1) : s[j] # sep
         IN  <<SubSeq(s, 1, i - 1)>> \o Split(SubSeq(s, i + 1, Len(s)), sep)
    ELSE <<s>>

\* url.split("/").filter(Boolean)
Segments(url) == SelectSeq(Split(url, "/"), LAMBDA seg : seg # Empty)

\* .replace(/-/g, " ")
ReplaceDashes(s) == [i \in 1..Len(s) |-> IF s[i] = "-" THEN " " ELSE s[i]]

\* slice(-1)[0] is undefined for a URL without a segment, and .replace on
\* undefined throws a TypeError
FallbackTitleThrows(url) == Segments(url) = <<>>

fallbackTitle(url) ==
  LET segs == Segments(url) IN ReplaceDashes(segs[Len(segs)])

\* one record handed to feed.item by the image-sitemap script
SitemapFeedItem(item) ==
  [title |-> fallbackTitle(item.url), url |-> item.url, guid |-> item.url,
   image |-> item.image, type |-> guessImageType(item.image)]

\* --------------------------------------------------- news-sitemap script
asArray(v) ==
  IF v.kind = "undefined" THEN <<>>
  ELSE IF v.kind = "array" THEN v.items
  ELSE <<v.item>>

IsString(v) == v # Undefined

\* the loop of getLatestNewsItems over asArray(obj?.urlset?.url)
RECURSIVE CollectNews(_)
CollectNews(us) ==
  IF us = <<>> THEN <<>>
  ELSE LET u == Head(us)
       IN  (IF IsString(u.loc) /\ IsString(u.title)
              THEN <<[url |-> Trim(u.loc), title |-> Trim(u.title),
                      pubDate |-> u.pubDate]>>
              ELSE <<>>)
             \o CollectNews(Tail(us))

normalizeImageUrl(url) ==
  IF Falsy(url) THEN Undefined
  ELSE IF StartsWith(url, <<"/", "/">>)
       THEN <<"h", "t", "t", "p", "s", ":">> \o url
       ELSE url

\* getOgImage with twitter:image looked up ahead of og:image
getOgImage_TwitterFirst(page) ==
  LET img == normalizeImageUrl(Or(page.twitter, Or(page.og, page.secure)))
  IN  IF ~Falsy(img) THEN img ELSE normalizeImageUrl(page.firstImg)

\* getOgImage on the fetched page: the content attribute of the first
\* og:image, twitter:image and og:image:secure_url meta element and the src
\* of the first <img>, each Undefined when the element or attribute is absent.
getOgImage(page) ==
  LET img == normalizeImageUrl(Or(page.og, Or(page.twitter, page.secure)))
  IN  IF ~Falsy(img) THEN img ELSE normalizeImageUrl(page.firstImg)

\* one record handed to feed.item by the news-sitemap script
NewsFeedItem(item) ==
  [title |-> item.title, url |-> item.url, guid |-> item.url,
   image |-> item.image, type |-> guessImageType(item.image)]

\* ------------------------------------------------ documents the site serves
HTTPS == <<"h", "t", "t", "p", "s", ":", "/", "/">>
DigitChar(i) == <<"1", "2", "3", "4", "5", "6", "7", "8", "9">>[i]
Min(a, b) == IF a < b THEN a ELSE b

\* lastmod texts: absent, and three timestamps of which the last two differ
\* only in the sign of the zone offset
LastMods == {Empty, <<"1">>, <<"2", "-", "1">>, <<"2", "+", "1">>}

SitemapLoc(i) == <<"s", DigitChar(i)>>

\* sitemap index documents: every choice of lastmod for up to MaxIndexLen
\* entries, and documents with a <sitemap> that has no <loc>
IndexDocs ==
  UNION { [1..n -> LastMods] : n \in 0..MaxIndexLen } 

IndexXml(lastmods) ==
  [i \in 1..Len(lastmods) |-> [loc |-> SitemapLoc(i), lastmod |-> lastmods[i]]]

IndexXmls ==
  { IndexXml(d) : d \in IndexDocs }
    \cup { <<[loc |-> <<" ">>, lastmod |-> <<"2", "+", "1">>]>>,
           <<[loc |-> <<" ">>, lastmod |-> <<"2", "+", "1">>],
             [loc |-> <<" ", "s", "9">>, lastmod |-> <<" ", "1">>]>> }

ArticleUrl(i) == HTTPS \o <<"t", "/", "a", "-", DigitChar(Min(i, NDistinct))>>
ArticleImage(i) == HTTPS \o <<"c", "/", DigitChar(Min(i, NDistinct)), ".", "j", "p", "g">>

UrlEntry(i) ==
  [loc |-> ArticleUrl(i), nestedImageLoc |-> ArticleImage(i),
   imageLoc |-> ArticleImage(i)]

\* a <url> element that departs from the regular one
OddUrlEntry(i, kind) ==
  CASE kind = "noLoc"     -> [UrlEntry(i) EXCEPT !.loc = <<" ">>]
    [] kind = "noImage"   -> [UrlEntry(i) EXCEPT !.nestedImageLoc = Empty,
                                                 !.imageLoc = Empty]
    [] kind = "bareImage" -> [UrlEntry(i) EXCEPT !.nestedImageLoc = Empty,
                                !.imageLoc = <<"/", "/", "c", "/", "b", ".", "P", "N", "G">>]
    [] kind = "relImage"  -> [UrlEntry(i) EXCEPT !.nestedImageLoc = <<"/", "r", ".", "w", "e", "b", "p">>]
    [] kind = "dup"       -> [UrlEntry(i) EXCEPT !.loc = ArticleUrl(1)]
    [] kind = "rootUrl"   -> [UrlEntry(i) EXCEPT !.loc = <<"/">>]
    [] kind = "dashUrl"   -> [UrlEntry(i) EXCEPT !.loc = <<"/", "-">>]

UrlEntryKinds ==
  {"noLoc", "noImage", "bareImage", "relImage", "dup", "rootUrl", "dashUrl"}

ShortLens == {0} \cup ((MAX_ITEMS - 1)..(MAX_ITEMS + MaxExtra))
LongLens  == PoolSize..(PoolSize + MaxExtra)

\* article sitemap documents: n regular <url> elements, or n with the p-th odd
ArticleXmls ==
  { [i \in 1..n |-> UrlEntry(i)] : n \in ShortLens }
    \cup { [i \in 1..n |-> IF i = p THEN OddUrlEntry(i, k) ELSE UrlEntry(i)] :
             <<n, p, k>> \in { t \in ShortLens \X (2..(MAX_ITEMS + MaxExtra)) \X UrlEntryKinds :
                                 t[2] <= t[1] } }

NewsUrl(i) == HTTPS \o <<"t", "/", "n", DigitChar(Min(i, NDistinct))>>
NewsTitle(i) == <<"T", DigitChar(Min(i, NDistinct))>>

NewsEntry(i) == [loc |-> NewsUrl(i), title |-> NewsTitle(i), pubDate |-> Undefined]

OddNewsEntry(i, kind) ==
  CASE kind = "noLoc"      -> [NewsEntry(i) EXCEPT !.loc = Undefined]
    [] kind = "noTitle"    -> [NewsEntry(i) EXCEPT !.title = Undefined]
    [] kind = "emptyTitle" -> [NewsEntry(i) EXCEPT !.title = <<" ">>]
    [] kind = "dup"        -> [NewsEntry(i) EXCEPT !.loc = NewsUrl(1) \o <<" ">>,
                                                   !.title = NewsTitle(1)]

NewsEntryKinds == {"noLoc", "noTitle", "emptyTitle", "dup"}

\* obj?.urlset?.url of the parsed news sitemap: absent, one object, or an
\* array of n entries (the p-th odd in some of the short ones)
NewsUrlsets ==
  { [kind |-> "undefined"], [kind |-> "object", item |-> NewsEntry(1)] }
    \cup { [kind |-> "array", items |-> [i \in 1..n |-> NewsEntry(i)]] :
             n \in ShortLens \cup LongLens }
    \cup { [kind |-> "array",
            items |-> [i \in 1..n |-> IF i = p THEN OddNewsEntry(i, k) ELSE NewsEntry(i)]] :
             <<n, p, k>> \in { t \in ShortLens \X {2, MAX_ITEMS} \X NewsEntryKinds :
                                 t[2] <= t[1] } }

\* the article page behind the k-th news URL, and a page without any image
ArticlePage(k) ==
  CASE k = 1 -> [og |-> HTTPS \o <<"c", "/", "1", ".", "P", "N", "G">>,
                 twitter |-> Undefined, secure |-> Undefined, firstImg |-> Undefined]
    [] k = 2 -> [og |-> Undefined,
                 twitter |-> <<"/", "/", "c", "/", "2", ".", "w", "e", "b", "p">>,
                 secure |-> Undefined, firstImg |-> <<"/", "x">>]
    [] k = 3 -> [og |-> Empty, twitter |-> Empty,
                 secure |-> HTTPS \o <<"c", "/", "3">>, firstImg |-> Undefined]
    [] k = 4 -> [og |-> Undefined, twitter |-> Undefined, secure |-> Undefined,
                 firstImg |-> <<"/", "4", ".", "j", "p", "g">>]
    [] OTHER -> [og |-> HTTPS \o <<"c", "/", DigitChar(k), ".", "j", "p", "g">>,
                 twitter |-> HTTPS \o <<"c", "/", "t">>,
                 secure |-> Undefined, firstImg |-> Undefined]

NoImagePage ==
  [og |-> Undefined, twitter |-> Empty, secure |-> Undefined, firstImg |-> Empty]

PagesAt(url) ==
  { ArticlePage(k) : k \in { j \in 1..NDistinct : NewsUrl(j) = url } }
    \cup { NoImagePage }

\* ------------------------------------------------------------------ state
VARIABLES
  script,            \* which of the two scripts runs: "sitemap" or "news"
  pc,                \* position of main
  exitCode,          \* -1 while running, 0 after a normal end, 1 after process.exit(1)
  requests,          \* URLs handed to fetchText, in call order
  lastFetch,         \* the latest fetchText call that settled: its url, and whether it returned
  caught,            \* sitemap script: the e of catch (e) around the first fetch
  indexXml,          \* sitemap script: the sitemap index that was fetched
  sitemapUrls,       \* sitemap script: parseSitemapIndex(indexXml)
  newestSitemapUrl,  \* sitemap script: sitemapUrls[0]
  articleItems,      \* sitemap script: parseArticleSitemap(articleXml)
  top,               \* sitemap script: articleItems.slice(0, MAX_ITEMS)
  newsItems,         \* news script: result of getLatestNewsItems
  toTry,             \* news script: newsItems.slice(0, 25)
  i,                 \* news script: number of toTry entries the loop has taken
  chosen,            \* news script: items that got an image
  slept,             \* news script: the 400 ms timer ran since the last getOgImage settled
  lastOutcome,       \* news script: how the last getOgImage call ended
  feedItems,         \* records handed to feed.item
  written,           \* fs.writeFile(OUT_FILE, ...) was performed
  outFile,           \* the items of the feed that was written
  arg,               \* function specifications: the argument of the call
  ret                \* function specifications: the value returned

vars == <<script, pc, exitCode, requests, lastFetch, caught, indexXml, sitemapUrls, newestSitemapUrl,
          articleItems, top, newsItems, toTry, i, chosen, slept, lastOutcome,
          feedItems, written, outFile, arg, ret>>

sitemapVars == <<indexXml, sitemapUrls, newestSitemapUrl, articleItems, top>>
newsVars    == <<newsItems, toTry, i, chosen, slept, lastOutcome>>
outVars     == <<feedItems, written, outFile>>
callVars    == <<arg, ret>>

\* everything but script, pc, arg and ret, before main has run
Fresh ==
  /\ exitCode = -1
  /\ requests = <<>>
  /\ lastFetch = [url |-> Empty, ok |-> TRUE]
  /\ caught = [thrown |-> FALSE, url |-> Empty]
  /\ indexXml = <<>>
  /\ sitemapUrls = <<>>
  /\ newestSitemapUrl = Undefined
  /\ articleItems = <<>>
  /\ top = <<>>
  /\ newsItems = <<>>
  /\ toTry = <<>>
  /\ i = 0
  /\ chosen = <<>>
  /\ slept = FALSE
  /\ lastOutcome = "none"
  /\ feedItems = <<>>
  /\ written = FALSE
  /\ outFile = <<>>

Init ==
  /\ script \in {"sitemap", "news"}
  /\ pc = IF script = "sitemap" THEN "fetchIndex" ELSE "fetchNews"
  /\ arg = Undefined
  /\ ret = Undefined
  /\ Fresh

\* main().catch(err => { console.error(err); process.exit(1) })
Exit1 == pc' = "exited" /\ exitCode' = 1

\* the length test, off by one
TooFew_OffByOne(items) == Len(items) < MAX_ITEMS - 1

\* the length test in front of the feed construction, in both scripts
TooFew(items) == Len(items) < MAX_ITEMS

\* ------------------------------------------------- image-sitemap script
\* the first fetch, with the fallback fetch not confined to the catch block
FetchUpdatedIndex_FallbackAnyway ==
  /\ script = "sitemap" /\ pc = "fetchIndex"
  /\ requests' = Append(requests, UPDATED_ARTICLE_SITEMAP_INDEX)
  /\ \/ /\ \E xml \in IndexXmls : indexXml' = xml
        /\ lastFetch' = [url |-> UPDATED_ARTICLE_SITEMAP_INDEX, ok |-> TRUE]
        /\ caught' = caught
        /\ pc' = "fetchFallback"
     \/ /\ indexXml' = indexXml
        /\ lastFetch' = [url |-> UPDATED_ARTICLE_SITEMAP_INDEX, ok |-> FALSE]
        /\ caught' = [thrown |-> TRUE, url |-> UPDATED_ARTICLE_SITEMAP_INDEX]
        /\ pc' = "fetchFallback"
  /\ UNCHANGED <<script, exitCode, sitemapUrls, newestSitemapUrl, articleItems, top>>
  /\ UNCHANGED <<newsVars, outVars, callVars>>

\* try { indexXml = await fetchText(UPDATED_ARTICLE_SITEMAP_INDEX) } catch ...
FetchUpdatedIndex ==
  /\ script = "sitemap" /\ pc = "fetchIndex"
  /\ requests' = Append(requests, UPDATED_ARTICLE_SITEMAP_INDEX)
  /\ \/ /\ \E xml \in IndexXmls : indexXml' = xml
        /\ lastFetch' = [url |-> UPDATED_ARTICLE_SITEMAP_INDEX, ok |-> TRUE]
        /\ caught' = caught
        /\ pc' = "parseIndex"
     \/ /\ indexXml' = indexXml
        /\ lastFetch' = [url |-> UPDATED_ARTICLE_SITEMAP_INDEX, ok |-> FALSE]
        /\ caught' = [thrown |-> TRUE, url |-> UPDATED_ARTICLE_SITEMAP_INDEX]
        /\ pc' = "fetchFallback"
  /\ UNCHANGED <<script, exitCode, sitemapUrls, newestSitemapUrl, articleItems, top>>
  /\ UNCHANGED <<newsVars, outVars, callVars>>

\* catch (e) { indexXml = await fetchText(FALLBACK_ARTICLE_SITEMAP_INDEX) }
FetchFallbackIndex ==
  /\ script = "sitemap" /\ pc = "fetchFallback"
  /\ requests' = Append(requests, FALLBACK_ARTICLE_SITEMAP_INDEX)
  /\ \/ /\ \E xml \in IndexXmls : indexXml' = xml
        /\ lastFetch' = [url |-> FALLBACK_ARTICLE_SITEMAP_INDEX, ok |-> TRUE]
        /\ pc' = "parseIndex" /\ exitCode' = exitCode
     \/ /\ indexXml' = indexXml
        /\ lastFetch' = [url |-> FALLBACK_ARTICLE_SITEMAP_INDEX, ok |-> FALSE]
        /\ Exit1
  /\ UNCHANGED <<script, caught, sitemapUrls, newestSitemapUrl, articleItems, top>>
  /\ UNCHANGED <<newsVars, outVars, callVars>>

\* sitemapUrls = parseSitemapIndex(indexXml); throw when it is empty;
\* newestSitemapUrl = sitemapUrls[0]
ParseIndex ==
  /\ script = "sitemap" /\ pc = "parseIndex"
  /\ sitemapUrls' = parseSitemapIndex(indexXml)
  /\ IF Len(sitemapUrls') = 0
       THEN Exit1 /\ newestSitemapUrl' = newestSitemapUrl
       ELSE /\ newestSitemapUrl' = sitemapUrls'[1]
            /\ pc' = "fetchSitemap" /\ exitCode' = exitCode
  /\ UNCHANGED <<script, requests, lastFetch, caught, indexXml, articleItems, top>>
  /\ UNCHANGED <<newsVars, outVars, callVars>>

\* articleXml = await fetchText(newestSitemapUrl); parseArticleSitemap;
\* slice(0, MAX_ITEMS); throw when fewer than MAX_ITEMS
FetchNewestSitemap ==
  /\ script = "sitemap" /\ pc = "fetchSitemap"
  /\ requests' = Append(requests, newestSitemapUrl)
  /\ \/ /\ lastFetch' = [url |-> newestSitemapUrl, ok |-> TRUE]
        /\ \E xml \in ArticleXmls : articleItems' = parseArticleSitemap(xml)
        /\ top' = Slice(articleItems', MAX_ITEMS)
        /\ IF TooFew(top') THEN Exit1
                           ELSE pc' = "buildFeed" /\ exitCode' = exitCode
     \/ /\ lastFetch' = [url |-> newestSitemapUrl, ok |-> FALSE]
        /\ Exit1 /\ UNCHANGED <<articleItems, top>>
  /\ UNCHANGED <<script, caught, indexXml, sitemapUrls, newestSitemapUrl>>
  /\ UNCHANGED <<newsVars, outVars, callVars>>

\* for (const item of top) feed.item({...}): the loop stops with a TypeError
\* at the first item whose url has no path segment
RECURSIVE SitemapFeedItems(_)
SitemapFeedItems(items) ==
  IF items = <<>> \/ FallbackTitleThrows(Head(items).url) THEN <<>>
  ELSE <<SitemapFeedItem(Head(items))>> \o SitemapFeedItems(Tail(items))

BuildSitemapFeed ==
  /\ script = "sitemap" /\ pc = "buildFeed"
  /\ feedItems' = SitemapFeedItems(top)
  /\ IF Len(feedItems') < Len(top) THEN Exit1
                                   ELSE pc' = "write" /\ exitCode' = exitCode
  /\ UNCHANGED <<script, requests, lastFetch, caught, written, outFile>>
  /\ UNCHANGED <<sitemapVars, newsVars, callVars>>

\* await fs.writeFile(OUT_FILE, feed.xml(...)), in both scripts
WriteFile ==
  /\ pc = "write"
  /\ written' = TRUE
  /\ outFile' = feedItems
  /\ pc' = "exited" /\ exitCode' = 0
  /\ UNCHANGED <<script, requests, lastFetch, caught, feedItems>>
  /\ UNCHANGED <<sitemapVars, newsVars, callVars>>

\* --------------------------------------------------- news-sitemap script
\* newsItems = await getLatestNewsItems(); chosen = []; toTry = newsItems.slice(0, 25)
FetchNews ==
  /\ script = "news" /\ pc = "fetchNews"
  /\ requests' = Append(requests, NEWS_SITEMAP)
  /\ \/ /\ lastFetch' = [url |-> NEWS_SITEMAP, ok |-> TRUE]
        /\ \E urlset \in NewsUrlsets : newsItems' = CollectNews(asArray(urlset))
        /\ toTry' = Slice(newsItems', PoolSize)
        /\ pc' = "loop" /\ exitCode' = exitCode
     \/ /\ lastFetch' = [url |-> NEWS_SITEMAP, ok |-> FALSE]
        /\ Exit1 /\ UNCHANGED <<newsItems, toTry>>
  /\ UNCHANGED <<script, caught, i, chosen, slept, lastOutcome>>
  /\ UNCHANGED <<sitemapVars, outVars, callVars>>

\* for (const item of toTry) { try { const image = await getOgImage(item.url)
CallGetOgImage ==
  /\ script = "news" /\ pc = "loop" /\ i < Len(toTry)
  /\ i' = i + 1
  /\ requests' = Append(requests, toTry[i'].url)
  /\ pc' = "fetching"
  /\ UNCHANGED <<script, exitCode, lastFetch, caught, newsItems, toTry, chosen, slept, lastOutcome>>
  /\ UNCHANGED <<sitemapVars, outVars, callVars>>

\* the throw of fetchText inside getOgImage, without the try block around it
ArticleFetchThrew_Aborts ==
  /\ lastFetch' = [url |-> toTry[i].url, ok |-> FALSE]
  /\ lastOutcome' = "threw"
  /\ chosen' = chosen
  /\ Exit1

\* fetchText inside getOgImage throws: catch { } and on to the next item
ArticleFetchThrew ==
  /\ lastFetch' = [url |-> toTry[i].url, ok |-> FALSE]
  /\ lastOutcome' = "threw"
  /\ chosen' = chosen
  /\ pc' = "loop" /\ exitCode' = exitCode

\* if (!image) continue
ArticleWithoutImage ==
  /\ lastOutcome' = "noImage"
  /\ chosen' = chosen
  /\ pc' = "loop" /\ exitCode' = exitCode

\* the item put in front of chosen (unshift) instead of behind it
ArticleWithImage_Unshift(image) ==
  /\ lastOutcome' = "image"
  /\ chosen' = <<[url |-> toTry[i].url, title |-> toTry[i].title,
                  pubDate |-> toTry[i].pubDate, image |-> image]>> \o chosen
  /\ pc' = IF Len(chosen') >= MAX_ITEMS THEN "afterLoop" ELSE "sleeping"
  /\ exitCode' = exitCode

\* chosen.push({ ...item, image }); if (chosen.length >= MAX_ITEMS) break;
\* otherwise the timer is started
ArticleWithImage(image) ==
  /\ lastOutcome' = "image"
  /\ chosen' = Append(chosen, [url |-> toTry[i].url, title |-> toTry[i].title,
                               pubDate |-> toTry[i].pubDate, image |-> image])
  /\ pc' = IF Len(chosen') >= MAX_ITEMS THEN "afterLoop" ELSE "sleeping"
  /\ exitCode' = exitCode

GetOgImageSettles ==
  /\ script = "news" /\ pc = "fetching"
  /\ slept' = FALSE
  /\ \/ ArticleFetchThrew
     \/ /\ lastFetch' = [url |-> toTry[i].url, ok |-> TRUE]
        /\ \E page \in PagesAt(toTry[i].url) :
             LET image == getOgImage(page)
             IN  IF Falsy(image) THEN ArticleWithoutImage ELSE ArticleWithImage(image)
  /\ UNCHANGED <<script, requests, caught, newsItems, toTry, i>>
  /\ UNCHANGED <<sitemapVars, outVars, callVars>>

\* await new Promise(r => setTimeout(r, 400))
PoliteDelay ==
  /\ script = "news" /\ pc = "sleeping"
  /\ slept' = TRUE
  /\ pc' = "loop"
  /\ UNCHANGED <<script, exitCode, requests, lastFetch, caught, newsItems, toTry, i, chosen, lastOutcome>>
  /\ UNCHANGED <<sitemapVars, outVars, callVars>>

\* the loop ran out of items
LoopExhausted ==
  /\ script = "news" /\ pc = "loop" /\ i = Len(toTry)
  /\ pc' = "afterLoop"
  /\ UNCHANGED <<script, exitCode, requests, lastFetch, caught>>
  /\ UNCHANGED <<sitemapVars, newsVars, outVars, callVars>>

\* if (chosen.length < MAX_ITEMS) throw ...; for (const item of chosen) feed.item({...})
BuildNewsFeed ==
  /\ script = "news" /\ pc = "afterLoop"
  /\ IF TooFew(chosen)
       THEN Exit1 /\ feedItems' = feedItems
       ELSE /\ feedItems' = [k \in 1..Len(chosen) |-> NewsFeedItem(chosen[k])]
            /\ pc' = "write" /\ exitCode' = exitCode
  /\ UNCHANGED <<script, requests, lastFetch, caught, written, outFile>>
  /\ UNCHANGED <<sitemapVars, newsVars, callVars>>

Next ==
  \/ FetchUpdatedIndex
  \/ FetchFallbackIndex
  \/ ParseIndex
  \/ FetchNewestSitemap
  \/ BuildSitemapFeed
  \/ WriteFile
  \/ FetchNews
  \/ CallGetOgImage
  \/ GetOgImageSettles
  \/ PoliteDelay
  \/ LoopExhausted
  \/ BuildNewsFeed

Spec == Init /\ [][Next]_vars

\* ------------------------------------------- getOgImage on its own
\* what an attribute of the page can hold: absent, empty, a protocol-relative
\* value and an absolute one, the values differing from source to source
AttrValues(c) == {Undefined, Empty, <<"/", "/", c>>, HTTPS \o <<c>>}

AllPages ==
  { [og |-> a, twitter |-> b, secure |-> c, firstImg |-> d] :
      <<a, b, c, d>> \in AttrValues("o") \X AttrValues("t")
                           \X AttrValues("s") \X AttrValues("i") }

InitOgImage ==
  /\ script = "getOgImage"
  /\ pc = "call"
  /\ arg \in AllPages
  /\ ret = Undefined
  /\ Fresh

OgImageReturns ==
  /\ script = "getOgImage" /\ pc = "call"
  /\ ret' = getOgImage(arg)
  /\ pc' = "returned"
  /\ UNCHANGED <<script, exitCode, requests, lastFetch, caught, arg>>
  /\ UNCHANGED <<sitemapVars, newsVars, outVars>>

SpecOgImage == InitOgImage /\ [][OgImageReturns]_vars

\* --------------------------------------- guessImageType on its own
UrlHeads ==
  { <<"a">>,
    <<"a", ".", "p", "n", "g", "/", "b">>,
    <<"a", ".", "P", "n", "G", "?">>,
    <<"a", ".", "w", "e", "b", "p", "/", "b">>,
    <<"p", "n", "g", "w", "e", "b", "p">>,
    <<"a", ".", "j", "p", "g", "?", "b">>,
    <<"a", ".", "W", "E", "B", "P", "?", "b">> }

UrlTails ==
  { Empty,
    <<".", "p", "n", "g">>, <<".", "P", "N", "G">>, <<".", "P", "n", "g">>,
    <<".", "w", "e", "b", "p">>, <<".", "W", "E", "B", "P">>,
    <<".", "j", "p", "g">>, <<".", "j", "p", "e", "g">>,
    <<".", "p", "n">>, <<"p", "n", "g">>, <<".", "w", "e", "b">> }

ImageUrls == { h \o t : <<h, t>> \in UrlHeads \X UrlTails }

InitImageType ==
  /\ script = "guessImageType"
  /\ pc = "call"
  /\ arg \in ImageUrls
  /\ ret = ""
  /\ Fresh

ImageTypeReturns ==
  /\ script = "guessImageType" /\ pc = "call"
  /\ ret' = guessImageType(arg)
  /\ pc' = "returned"
  /\ UNCHANGED <<script, exitCode, requests, lastFetch, caught, arg>>
  /\ UNCHANGED <<sitemapVars, newsVars, outVars>>

SpecImageType == InitImageType /\ [][ImageTypeReturns]_vars

\* ================================================================ claims
RECURSIVE IsSubsequence(_, _)
IsSubsequence(a, b) ==
  IF a = <<>> THEN TRUE
  ELSE IF b = <<>> THEN FALSE
  ELSE IF Head(a) = Head(b) THEN IsSubsequence(Tail(a), Tail(b))
  ELSE IsSubsequence(a, Tail(b))

\* the candidates the extractor produced, and the selection made from them
Candidates == IF script = "sitemap" THEN articleItems ELSE newsItems
Selected   == IF script = "sitemap" THEN top ELSE chosen

\* what identifies a candidate in a selected item or in a feed record
SitemapKey(r) == [url |-> r.url, image |-> r.image]
NewsKey(r)    == [url |-> r.url, title |-> r.title]
Keys(items) ==
  [k \in 1..Len(items) |->
     IF script = "sitemap" THEN SitemapKey(items[k]) ELSE NewsKey(items[k])]

\* C1: the selection and the records handed to the feed writer are
\* subsequences of the extracted candidates, in document order, and never
\* hold more than MAX_ITEMS items, in both scripts.
C1_OrderPreservedAndBounded ==
  /\ Len(Selected) <= MAX_ITEMS
  /\ Len(feedItems) <= MAX_ITEMS
  /\ IsSubsequence(Keys(Selected), Keys(Candidates))
  /\ IsSubsequence(Keys(feedItems), Keys(Candidates))
  /\ written => outFile = feedItems

\* a feed was written by the news script after the first candidate and a
\* later one were dropped, from a pool with more candidates than were taken
C1_Witness ==
  /\ script = "news" /\ written
  /\ Len(newsItems) > MAX_ITEMS
  /\ outFile[1].url # newsItems[1].url
  /\ outFile[MAX_ITEMS].url = newsItems[MAX_ITEMS + 1].url

\* C2: a run whose selection holds fewer than MAX_ITEMS items never reaches
\* the feed construction or the write and ends with exit status 1; a write
\* of rss.xml implies exactly MAX_ITEMS items were selected and written.
C2_NoShortFeed ==
  /\ written => Len(Selected) = MAX_ITEMS /\ Len(outFile) = MAX_ITEMS
  /\ pc \in {"buildFeed", "write"} => Len(Selected) = MAX_ITEMS
  /\ (pc = "exited" /\ Len(Selected) < MAX_ITEMS) => exitCode = 1 /\ ~written

\* the news script scanned the whole pool of 25 out of more candidates,
\* found four images, and ended with status 1 without writing
C2_Witness ==
  /\ script = "news" /\ pc = "exited" /\ exitCode = 1 /\ ~written
  /\ Len(newsItems) > PoolSize /\ i = PoolSize
  /\ Len(chosen) = MAX_ITEMS - 1

\* C3: the final item list never contains two items with the same url/guid.
C3_NoDuplicateUrls ==
  \A a, b \in 1..Len(feedItems) : a # b => feedItems[a].url # feedItems[b].url

\* UTF-16 code unit of the characters a lastmod is written with
CodeUnit(c) ==
  CASE c = "+" -> 43 [] c = "-" -> 45 [] c = "1" -> 49 [] c = "2" -> 50

\* String comparison by UTF-16 code units: the lexicographic order
RECURSIVE LexLess(_, _)
LexLess(a, b) ==
  IF b = <<>> THEN FALSE
  ELSE IF a = <<>> THEN TRUE
  ELSE IF CodeUnit(Head(a)) # CodeUnit(Head(b))
       THEN CodeUnit(Head(a)) < CodeUnit(Head(b))
       ELSE LexLess(Tail(a), Tail(b))

\* the <sitemap> entries of the fetched index that have a loc
IndexEntries == CollectSitemaps(indexXml)

\* C4: the sitemap URL main selects is the loc of the entry with the
\* lexicographically maximal lastmod, the first such entry in document
\* order, and no entry without lastmod is selected ahead of one that has one.
C4_LexicographicallyNewest ==
  newestSitemapUrl # Undefined =>
    \E k \in 1..Len(IndexEntries) :
      /\ newestSitemapUrl = IndexEntries[k].loc
      /\ \A j \in 1..Len(IndexEntries) :
           ~LexLess(IndexEntries[k].lastmod, IndexEntries[j].lastmod)
      /\ \A j \in 1..(k - 1) : IndexEntries[j].lastmod # IndexEntries[k].lastmod
      /\ IndexEntries[k].lastmod = Empty =>
           \A j \in 1..Len(IndexEntries) : IndexEntries[j].lastmod = Empty

\* C5: every secondary fetch but the first starts only after the polite
\* delay has run since the previous one settled, however that one ended.
C5_FetchesThrottled ==
  (script = "news" /\ pc = "fetching" /\ i > 1) => slept

\* C6: a getOgImage call that throws or yields no image leaves chosen as it
\* was and returns to the loop, whose next call takes the next candidate in
\* order; the news script exits with status 1 after its loop only with
\* fewer than MAX_ITEMS chosen items.
C6_FailureOnlySkips ==
  /\ [][(pc = "fetching" /\ lastOutcome' \in {"threw", "noImage"})
          => (chosen' = chosen /\ pc' = "loop" /\ exitCode' = -1 /\ i' = i)]_vars
  /\ [][(pc = "loop" /\ pc' = "fetching")
          => (i' = i + 1 /\ requests' = Append(requests, toTry[i + 1].url))]_vars
  /\ [](script = "news" /\ exitCode = 1 /\ i > 0 => Len(chosen) < MAX_ITEMS)

\* after a fetch that threw, with an item already chosen, the next
\* candidate is being fetched
C6_Witness ==
  /\ script = "news" /\ pc = "fetching"
  /\ lastOutcome = "threw" /\ ~lastFetch.ok
  /\ Len(chosen) > 0

FallbackRequested ==
  \E k \in 1..Len(requests) : requests[k] = FALLBACK_ARTICLE_SITEMAP_INDEX

\* sources that have no fallback
NoFallbackFor(url) ==
  \/ url = FALLBACK_ARTICLE_SITEMAP_INDEX
  \/ url = NEWS_SITEMAP
  \/ (newestSitemapUrl # Undefined /\ url = newestSitemapUrl)

\* C7: the fallback index is requested only as the second request, right
\* after the primary index fetch threw, and at most once; after a primary
\* success it is never requested; a failed fetch of the fallback, of the
\* newest article sitemap or of the news sitemap ends the run with status 1
\* and nothing written.
C7_FallbackOrdering ==
  /\ FallbackRequested =>
       /\ caught.thrown /\ caught.url = UPDATED_ARTICLE_SITEMAP_INDEX
       /\ Len(requests) >= 2
       /\ requests[1] = UPDATED_ARTICLE_SITEMAP_INDEX
       /\ \A k \in 1..Len(requests) :
            requests[k] = FALLBACK_ARTICLE_SITEMAP_INDEX <=> k = 2
  /\ (script = "sitemap" /\ pc # "fetchIndex" /\ ~caught.thrown) => ~FallbackRequested
  /\ caught.thrown => (pc = "fetchFallback" \/ FallbackRequested)
  /\ (~lastFetch.ok /\ NoFallbackFor(lastFetch.url)) =>
       /\ pc = "exited" /\ exitCode = 1 /\ ~written
       /\ requests[Len(requests)] = lastFetch.url

\* both index fetches failed and the run ended with status 1, unwritten
C7_Witness ==
  /\ script = "sitemap" /\ pc = "exited" /\ exitCode = 1 /\ ~written
  /\ requests = <<UPDATED_ARTICLE_SITEMAP_INDEX, FALLBACK_ARTICLE_SITEMAP_INDEX>>
  /\ caught.thrown /\ ~lastFetch.ok

\* the sources of a page in priority order
Sources(page) == <<page.og, page.twitter, page.secure, page.firstImg>>

\* C8: getOgImage returns the first present (non-empty) one of og:image,
\* twitter:image, og:image:secure_url and the first img src, with https:
\* put in front when it begins with //, and nothing when none is present.
C8_FirstPresentSource ==
  (script = "getOgImage" /\ pc = "returned") =>
    LET present == { k \in 1..4 : ~Falsy(Sources(arg)[k]) }
    IN  IF present = {} THEN ret = Undefined
        ELSE LET first == CHOOSE k \in present : \A j \in present : k <= j
                 value == Sources(arg)[first]
             IN  /\ (value[1] = "/" /\ value[2] = "/") =>
                       ret = <<"h", "t", "t", "p", "s", ":">> \o value
                 /\ ~(value[1] = "/" /\ value[2] = "/") => ret = value

\* og:image absent and twitter:image empty: the protocol-relative secure_url
\* is returned with https: in front although an <img> is present too
C8_Witness ==
  /\ script = "getOgImage" /\ pc = "returned"
  /\ arg.og = Undefined /\ arg.twitter = Empty
  /\ arg.secure = <<"/", "/", "s">> /\ ~Falsy(arg.firstImg)
  /\ ret = <<"h", "t", "t", "p", "s", ":", "/", "/", "s">>

IsAbsoluteHttp(url) ==
  \/ StartsWith(url, <<"h", "t", "t", "p", ":", "/", "/">>)
  \/ StartsWith(url, <<"h", "t", "t", "p", "s", ":", "/", "/">>)

\* C9: every record handed to feed.item has a non-null, non-empty title and
\* an image that is an absolute http(s) URL.
C9_ItemsWellFormed ==
  \A k \in 1..Len(feedItems) :
    /\ feedItems[k].title # Undefined
    /\ feedItems[k].title # Empty
    /\ IsAbsoluteHttp(feedItems[k].image)

\* s ends with p
EndsWith(s, p) == Len(s) >= Len(p) /\ SubSeq(s, Len(s) - Len(p) + 1, Len(s)) = p

\* C10: guessImageType goes by the lowercased extension: a URL ending in
\* .png gives image/png, one ending in .webp gives image/webp, and every
\* other URL gives image/jpeg.
C10_TypeByExtension ==
  (script = "guessImageType" /\ pc = "returned") =>
    ret = IF EndsWith(ToLowerCase(arg), <<".", "p", "n", "g">>) THEN "image/png"
          ELSE IF EndsWith(ToLowerCase(arg), <<".", "w", "e", "b", "p">>) THEN "image/webp"
          ELSE "image/jpeg"

====
